---- MODULE Spec2Model ----
(***************************************************************************)
(* Model of src/main.py (GG - Gestor de Gastos): the transaction extractor *)
(* parse_banco_chile_email and the /parse-email handler parse_email with   *)
(* its call to write_to_sheet.                                             *)
(*                                                                         *)
(* Text is a sequence of characters; a character is a one-token string.    *)
(* Accented letters are written with a trailing apostrophe ("e'" is the    *)
(* letter e with acute accent).  An Optional value is <<>> (None) or <<v>>.*)
(* The emoji that begin the handler's messages are left out of the message *)
(* constants.                                                              *)
(***************************************************************************)
EXTENDS Integers, Sequences, FiniteSets, TLC

(***************************************************************************)
(* Bounds                                                                  *)
(***************************************************************************)
\* number of text fragments that follow the amount part of a body
MaxFrags == 3

(***************************************************************************)
(* Python str and re primitives                                            *)
(***************************************************************************)
None == <<>>
Some(v) == <<v>>

\* truthiness of an Optional[str]: None and "" are falsy
Truthy(o) == o # None /\ o[1] # <<>>

\* `x or ''` for an Optional[str]
OrEmpty(o) == IF Truthy(o) THEN o[1] ELSE <<>>

\* the letters of the model's alphabet that have two cases: upper :> lower
ToLower ==
    ("A" :> "a") @@ ("B" :> "b") @@ ("C" :> "c") @@ ("D" :> "d") @@ ("E" :> "e") @@
    ("G" :> "g") @@ ("I" :> "i") @@ ("J" :> "j") @@ ("O" :> "o") @@ ("R" :> "r") @@
    ("T" :> "t") @@ ("U" :> "u") @@ ("X" :> "x") @@ ("Y" :> "y") @@ ("E'" :> "e'") @@
    ("A'" :> "a'")

ToUpper ==
    ("a" :> "A") @@ ("b" :> "B") @@ ("c" :> "C") @@ ("d" :> "D") @@ ("e" :> "E") @@
    ("g" :> "G") @@ ("i" :> "I") @@ ("j" :> "J") @@ ("o" :> "O") @@ ("r" :> "R") @@
    ("t" :> "T") @@ ("u" :> "U") @@ ("x" :> "X") @@ ("y" :> "Y") @@ ("e'" :> "E'") @@
    ("a'" :> "A'")

\* str.lower() of one character
LowerChar(c) == IF c \in DOMAIN ToLower THEN ToLower[c] ELSE c

\* str.upper() of one character
UpperChar(c) == IF c \in DOMAIN ToUpper THEN ToUpper[c] ELSE c

\* str.lower()
RECURSIVE Lower(_)
Lower(s) == IF s = <<>> THEN <<>> ELSE <<LowerChar(Head(s))>> \o Lower(Tail(s))

\* str.capitalize(): first character upper-cased, the rest lower-cased
Capitalize(s) == IF s = <<>> THEN <<>> ELSE <<UpperChar(Head(s))>> \o Lower(Tail(s))

Digits == {"0", "1", "2", "3", "4", "5", "6", "7", "8", "9"}
\* \d
IsDigit(c) == c \in Digits
\* \s
IsSpace(c) == c \in {" ", "\n", "\r", "\t"}
\* [\d\.,]
IsAmountChar(c) == IsDigit(c) \/ c \in {".", ","}
\* [^\r\n]
IsLineChar(c) == c \notin {"\r", "\n"}

\* pat occurs in s at position i
MatchAt(s, pat, i) ==
    /\ i >= 1
    /\ i + Len(pat) - 1 <= Len(s)
    /\ \A k \in 1..Len(pat) : s[i + k - 1] = pat[k]

\* `pat in s`
Contains(s, pat) == \E i \in 1..(Len(s) - Len(pat) + 1) : MatchAt(s, pat, i)

Min(S) == CHOOSE x \in S : \A y \in S : x <= y

\* first position >= i of s that is not whitespace (Len(s) + 1 when none)
RECURSIVE SkipSpace(_, _)
SkipSpace(s, i) ==
    IF i > Len(s) \/ ~IsSpace(s[i]) THEN i ELSE SkipSpace(s, i + 1)

\* str.strip()
Strip(s) ==
    LET keep == {i \in 1..Len(s) : ~IsSpace(s[i])}
    IN  IF keep = {} THEN <<>>
        ELSE SubSeq(s, Min(keep), CHOOSE x \in keep : \A y \in keep : y <= x)

\* str.replace(c, '') for each c of the set cs
RemoveChars(s, cs) == SelectSeq(s, LAMBDA c : c \notin cs)

\* str.split(sep) for a one-character separator
RECURSIVE Split(_, _)
Split(s, sep) ==
    LET at == {i \in 1..Len(s) : s[i] = sep}
    IN  IF at = {} THEN <<s>>
        ELSE <<SubSeq(s, 1, Min(at) - 1)>> \o Split(SubSeq(s, Min(at) + 1, Len(s)), sep)

DigitValue(c) ==
    CASE c = "0" -> 0 [] c = "1" -> 1 [] c = "2" -> 2 [] c = "3" -> 3 [] c = "4" -> 4
      [] c = "5" -> 5 [] c = "6" -> 6 [] c = "7" -> 7 [] c = "8" -> 8 [] c = "9" -> 9

RECURSIVE DecimalValue(_)
DecimalValue(s) ==
    IF s = <<>> THEN 0
    ELSE 10 * DecimalValue(SubSeq(s, 1, Len(s) - 1)) + DigitValue(s[Len(s)])

\* float(s) for s made of digits only: [ok |-> FALSE] stands for ValueError
Float(s) ==
    IF s = <<>> THEN [ok |-> FALSE, value |-> 0]
    ELSE [ok |-> TRUE, value |-> DecimalValue(s)]

(***************************************************************************)
(* The regular expressions of parse_banco_chile_email, as re.search runs   *)
(* them: the leftmost start wins, then the quantifiers decide the end.     *)
(***************************************************************************)

\* first position >= i of s that is not an amount character (Len(s) + 1 when none)
RECURSIVE SkipAmount(_, _)
SkipAmount(s, i) ==
    IF i > Len(s) \/ ~IsAmountChar(s[i]) THEN i ELSE SkipAmount(s, i + 1)

\* re.search(r'\$[\d\.,]+', body): None or the matched text
AmountSearch(body) ==
    LET starts == {i \in 1..(Len(body) - 1) : body[i] = "$" /\ IsAmountChar(body[i + 1])}
    IN  IF starts = {} THEN None
        ELSE LET i == Min(starts)
             IN  \* greedy: the whole run of amount characters
                 Some(SubSeq(body, i, SkipAmount(body, i + 1) - 1))

\* \s+el\s+\d matches at position p of body
MerchantTailAt(body, p) ==
    /\ p <= Len(body)
    /\ IsSpace(body[p])
    /\ LET q == SkipSpace(body, p)
       IN  /\ MatchAt(body, <<"e", "l">>, q)
           /\ q + 2 <= Len(body)
           /\ IsSpace(body[q + 2])
           /\ LET r == SkipSpace(body, q + 2)
              IN  r <= Len(body) /\ IsDigit(body[r])

\* the end of the shortest group ([^\r\n]+?) that holds body[g..e] already and is
\* followed by the tail; 0 when the group cannot be completed
RECURSIVE MerchantEnd(_, _)
MerchantEnd(body, e) ==
    IF e > Len(body) \/ ~IsLineChar(body[e]) THEN 0
    ELSE IF MerchantTailAt(body, e + 1) THEN e
    ELSE MerchantEnd(body, e + 1)

\* re.search(r'en ([^\r\n]+?)\s+el\s+\d', body): None or group(1)
MerchantSearch(body) ==
    LET starts == {i \in 1..Len(body) :
                      /\ MatchAt(body, <<"e", "n", " ">>, i)
                      /\ MerchantEnd(body, i + 3) # 0}
    IN  IF starts = {} THEN None
        ELSE LET g == Min(starts) + 3
             IN  \* lazy: the shortest group
                 Some(SubSeq(body, g, MerchantEnd(body, g)))

TARJETA_DE == <<"t", "a", "r", "j", "e", "t", "a", " ", "d", "e", " ">>
CREDITO == <<"c", "r", "e'", "d", "i", "t", "o">>
DEBITO == <<"d", "e'", "b", "i", "t", "o">>

\* re.search(r'Tarjeta de (Crédito|Débito)', body, re.IGNORECASE): None or group(1)
CardTypeSearch(body) ==
    LET low == Lower(body)
        starts == {i \in 1..Len(body) :
                      /\ MatchAt(low, TARJETA_DE, i)
                      /\ \/ MatchAt(low, CREDITO, i + Len(TARJETA_DE))
                         \/ MatchAt(low, DEBITO, i + Len(TARJETA_DE))}
    IN  IF starts = {} THEN None
        ELSE LET g == Min(starts) + Len(TARJETA_DE)
             IN  IF MatchAt(low, CREDITO, g)
                 THEN Some(SubSeq(body, g, g + Len(CREDITO) - 1))
                 ELSE Some(SubSeq(body, g, g + Len(DEBITO) - 1))

\* \d{2}/\d{2}/\d{4} at position p
DateAt(body, p) ==
    /\ p + 9 <= Len(body)
    /\ \A k \in {0, 1, 3, 4, 6, 7, 8, 9} : IsDigit(body[p + k])
    /\ body[p + 2] = "/"
    /\ body[p + 5] = "/"

\* \d{2}:\d{2} at position p
TimeAt(body, p) ==
    /\ p + 4 <= Len(body)
    /\ \A k \in {0, 1, 3, 4} : IsDigit(body[p + k])
    /\ body[p + 2] = ":"

\* re.search(r'el (\d{2}/\d{2}/\d{4}) (\d{2}:\d{2})', body): None or <<group(1), group(2)>>
DatetimeSearch(body) ==
    LET starts == {i \in 1..Len(body) :
                      /\ MatchAt(body, <<"e", "l", " ">>, i)
                      /\ DateAt(body, i + 3)
                      /\ i + 13 <= Len(body)
                      /\ body[i + 13] = " "
                      /\ TimeAt(body, i + 14)}
    IN  IF starts = {} THEN None
        ELSE LET i == Min(starts)
             IN  Some(<<SubSeq(body, i + 3, i + 12), SubSeq(body, i + 14, i + 18)>>)

(***************************************************************************)
(* parse_banco_chile_email                                                 *)
(***************************************************************************)
GIRO == <<"g", "i", "r", "o">>
CAJERO == <<"c", "a", "j", "e", "r", "o">>
CARGO_A_CUENTA == <<"c", "a", "r", "g", "o", " ", "a", " ", "c", "u", "e", "n", "t", "a">>
TARJETA_DE_CREDITO ==
    <<"t", "a", "r", "j", "e", "t", "a", " ", "d", "e", " ", "c", "r", "e'", "d", "i", "t", "o">>

Giro == <<"G", "i", "r", "o">>
Debito == <<"D", "e'", "b", "i", "t", "o">>
Credito == <<"C", "r", "e'", "d", "i", "t", "o">>
CajeroAutomatico ==
    <<"C", "a", "j", "e", "r", "o", " ", "A", "u", "t", "o", "m", "a'", "t", "i", "c", "o">>

\* step 1: result["amount"]
ParseAmount(body) ==
    LET amount_match == AmountSearch(body)
    IN  IF amount_match = None THEN 0
        ELSE LET amount_str == RemoveChars(amount_match[1], {"$", ".", ","})
                 f == Float(amount_str)
             IN  IF f.ok THEN f.value ELSE 0

\* the withdrawal trigger compared without .lower()
IsWithdrawalCaseSensitive(body) == Contains(body, GIRO) \/ Contains(body, CAJERO)

\* the withdrawal trigger of step 2
IsWithdrawal(body) ==
    LET low == Lower(body) IN Contains(low, GIRO) \/ Contains(low, CAJERO)

\* the merchant of a debit or credit body: group(1).strip() when the pattern matches
ParseMerchant(body) ==
    LET merchant_match == MerchantSearch(body)
    IN  IF merchant_match = None THEN None ELSE Some(Strip(merchant_match[1]))

\* step 2: <<result["card_type"], result["merchant"]>>
ParseType(body) ==
    LET low == Lower(body)
        first == IF IsWithdrawal(body) THEN <<Some(Giro), Some(CajeroAutomatico)>>
                 ELSE IF Contains(low, CARGO_A_CUENTA) THEN <<Some(Debito), ParseMerchant(body)>>
                 ELSE IF Contains(low, TARJETA_DE_CREDITO) THEN <<Some(Credito), ParseMerchant(body)>>
                 ELSE <<None, None>>
    IN  IF ~Truthy(first[1])
        THEN LET card_type_match == CardTypeSearch(body)
             IN  IF card_type_match = None THEN first
                 ELSE <<Some(Capitalize(card_type_match[1])), first[2]>>
        ELSE first

\* step 3: result["datetime"]
ParseDatetime(body) ==
    LET datetime_match == DatetimeSearch(body)
    IN  IF datetime_match = None THEN None
        ELSE Some(datetime_match[1][1] \o <<" ">> \o datetime_match[1][2])

\* an extractor that stops once the amount is not found
parse_stops_without_amount(body) ==
    LET t == ParseType(body)
    IN  IF ParseAmount(body) = 0
        THEN [amount |-> 0, card_type |-> None, merchant |-> None, datetime |-> None]
        ELSE [amount |-> ParseAmount(body),
              card_type |-> t[1],
              merchant |-> t[2],
              datetime |-> ParseDatetime(body)]

parse_banco_chile_email(body) ==
    LET t == ParseType(body)
    IN  [amount |-> ParseAmount(body),
         card_type |-> t[1],
         merchant |-> t[2],
         datetime |-> ParseDatetime(body)]

(***************************************************************************)
(* Request bodies                                                          *)
(***************************************************************************)
AmountParts ==
    { <<>>,
      <<"$", "1", ".", "5", "0", "0", " ">>,
      <<"$", "0", " ">>,
      <<"$", ".", " ">> }

Fragments ==
    { <<"G", "i", "r", "o", " ">>,
      <<"C", "A", "J", "E", "R", "O", " ">>,
      <<"C", "a", "r", "g", "o", " ", "a", " ", "c", "u", "e", "n", "t", "a", " ">>,
      <<"T", "a", "r", "j", "e", "t", "a", " ", "d", "e", " ", "C", "r", "e'", "d", "i", "t", "o", " ">>,
      <<"T", "A", "R", "J", "E", "T", "A", " ", "D", "E", " ", "D", "E'", "B", "I", "T", "O", " ">>,
      <<"b", "i", "e", "n", " ">>,
      <<"e", "n", " ", "X", "Y", " ", "e", "l", " ", "0", "1", "/", "0", "2", "/", "2", "0", "2", "4", " ", "1", "0", ":", "0", "0">>,
      <<"e", "l", " ", "0", "3", "/", "0", "4", "/", "2", "0", "2", "5", " ", "1", "1", ":", "3", "0", " ">>,
      <<"\n">> }

RECURSIVE Concat(_)
Concat(ss) == IF ss = <<>> THEN <<>> ELSE Head(ss) \o Concat(Tail(ss))

Bodies ==
    {a \o Concat(fs) : a \in AmountParts,
                       fs \in UNION {[1..n -> Fragments] : n \in 0..MaxFrags}}

(***************************************************************************)
(* Texts of parse_email                                                    *)
(***************************************************************************)
MsgNoTransaction ==
    <<"N", "o", " ", "s", "e", " ", "p", "u", "d", "o", " ", "e", "x", "t", "r", "a",
      "e", "r", " ", "i", "n", "f", "o", "r", "m", "a", "c", "i", "o'", "n", " ", "d",
      "e", " ", "t", "r", "a", "n", "s", "a", "c", "c", "i", "o'", "n", " ", "d", "e",
      "l", " ", "c", "o", "r", "r", "e", "o">>
MsgNotConfigured ==
    <<"S", "P", "R", "E", "A", "D", "S", "H", "E", "E", "T", "_", "I", "D", " ", "n",
      "o", " ", "c", "o", "n", "f", "i", "g", "u", "r", "a", "d", "o", " ", "e", "n",
      " ", "v", "a", "r", "i", "a", "b", "l", "e", "s", " ", "d", "e", " ", "e", "n",
      "t", "o", "r", "n", "o">>
MsgSaved ==
    <<"G", "u", "a", "r", "d", "a", "d", "o", " ", "e", "n", " ", "G", "o", "o", "g",
      "l", "e", " ", "S", "h", "e", "e", "t", "s", ":", " ">>
MsgNotSaved ==
    <<"N", "o", " ", "g", "u", "a", "r", "d", "a", "d", "o", " ", "e", "n", " ", "S",
      "h", "e", "e", "t", "s", ":", " ">>
MsgFallback ==
    <<"S", "P", "R", "E", "A", "D", "S", "H", "E", "E", "T", "_", "I", "D", " ", "n",
      "o", " ", "c", "o", "n", "f", "i", "g", "u", "r", "a", "d", "o">>
DetailPrefix ==
    <<"A", "g", "r", "e", "g", "a", "d", "a", " ", "f", "i", "l", "a", " ", "e", "n",
      " ", "r", "a", "n", "g", "o", ":", " ">>
NotAvailable ==
    <<"N", "/", "A">>
NoneText ==
    <<"N", "o", "n", "e">>
AttributeErrorText ==
    <<"'", "N", "o", "n", "e", "T", "y", "p", "e", "'", " ", "o", "b", "j", "e", "c",
      "t", " ", "h", "a", "s", " ", "n", "o", " ", "a", "t", "t", "r", "i", "b", "u",
      "t", "e", " ", "'", "g", "e", "t", "'">>
Sheet1 ==
    <<"S", "h", "e", "e", "t", "1">>
ColumnsAE ==
    <<"!", "A", ":", "E">>

(***************************************************************************)
(* The environment and the collaborator                                    *)
(***************************************************************************)
\* os.environ.get('SPREADSHEET_ID'): unset, empty, or an identifier
SpreadsheetIds == {None, Some(<<>>), Some(<<"i", "d", "1">>)}

\* os.environ.get('SHEET_NAME'): unset or a tab name
SheetNames == {None, Some(<<"G", "G">>)}

\* what service.spreadsheets().values().append(...).execute() may return: a mapping
\* with updates.updatedRange, a mapping that lacks one of the keys, a mapping whose
\* "updates" is no mapping, or no mapping at all
AppendResults ==
    { [type |-> "dict",
       updates |-> Some([type |-> "dict", updatedRange |-> Some(<<"A", "2", ":", "E", "2">>)])],
      [type |-> "dict", updates |-> Some([type |-> "dict", updatedRange |-> None])],
      [type |-> "dict", updates |-> None],
      [type |-> "dict", updates |-> Some([type |-> "NoneType"])],
      [type |-> "NoneType"] }

\* str(e) of the exceptions get_sheets_service() or execute() may raise
ExceptionTexts == {<<>>, <<"q", "u", "o", "t", "a">>}

(***************************************************************************)
(* parse_email                                                             *)
(***************************************************************************)
VARIABLES
    pc,              \* "idle", "calling" (inside write_to_sheet) or "done"
    env,             \* the environment variables of the process
    body,            \* email.body
    parsed_data,     \* None or the extractor's result
    calls,           \* the invocations of write_to_sheet made by the request
    outcome,         \* None or what write_to_sheet did: returned a result, raised
    sheets_saved,
    sheets_error,
    sheets_details,
    response         \* None or the response returned

vars == <<pc, env, body, parsed_data, calls, outcome,
          sheets_saved, sheets_error, sheets_details, response>>

\* a check that lets a zero amount through
NoTransactionNegative(parsed) == parsed.amount < 0

\* parsed_data["amount"] == 0
NoTransaction(parsed) == parsed.amount = 0

\* `SPREADSHEET_ID is None` in place of `not SPREADSHEET_ID`
NotConfiguredUnsetOnly(spreadsheet_id) == spreadsheet_id = None

\* not SPREADSHEET_ID
NotConfigured(spreadsheet_id) == ~Truthy(spreadsheet_id)

\* <<date_str, time_str>> of transaction.datetime
SplitDatetime(datetime) ==
    IF Truthy(datetime)
    THEN LET parts == Split(datetime[1], " ")
         IN  IF Len(parts) = 2 THEN <<Some(parts[1]), Some(parts[2])>> ELSE <<None, None>>
    ELSE <<None, None>>

\* a row of four cells: the timestamp unsplit
RowDataFourColumns(transaction) ==
    << OrEmpty(transaction.datetime),
       OrEmpty(transaction.merchant),
       OrEmpty(transaction.card_type),
       transaction.amount >>

\* row_data
RowData(transaction) ==
    LET dt == SplitDatetime(transaction.datetime)
    IN  << OrEmpty(dt[1]),
           OrEmpty(dt[2]),
           OrEmpty(transaction.merchant),
           OrEmpty(transaction.card_type),
           transaction.amount >>

\* f'{sheet_name}!A:E' with sheet_name = os.environ.get('SHEET_NAME', 'Sheet1')
RangeName(sheet_name) ==
    (IF sheet_name = None THEN Sheet1 ELSE sheet_name[1]) \o ColumnsAE

\* the arguments parse_email gives write_to_sheet
write_to_sheet(spreadsheet_id, range_name, values) ==
    [spreadsheetId |-> spreadsheet_id,
     range |-> range_name,
     valueInputOption |-> "USER_ENTERED",
     insertDataOption |-> "INSERT_ROWS",
     values |-> values]

\* result.get('updates', {}).get('updatedRange', 'N/A'): [ok |-> FALSE] stands for
\* the AttributeError of calling .get on what is no mapping
UpdatedRange(result) ==
    IF result.type # "dict" THEN [ok |-> FALSE, value |-> AttributeErrorText]
    ELSE IF result.updates = None THEN [ok |-> TRUE, value |-> NotAvailable]
    ELSE IF result.updates[1].type # "dict" THEN [ok |-> FALSE, value |-> AttributeErrorText]
    ELSE IF result.updates[1].updatedRange = None THEN [ok |-> TRUE, value |-> NotAvailable]
    ELSE [ok |-> TRUE, value |-> result.updates[1].updatedRange[1]]

\* f"{x}" of an Optional[str]
Format(o) == IF o = None THEN NoneText ELSE o[1]

\* the message with the error looked at before the saved flag
ComposeMessageErrorFirst(saved, error, details) ==
    IF Truthy(error) THEN MsgNotSaved \o error[1]
    ELSE IF saved THEN MsgSaved \o Format(details)
    ELSE MsgFallback

\* the message of a success response
ComposeMessage(saved, error, details) ==
    IF saved THEN MsgSaved \o Format(details)
    ELSE IF Truthy(error) THEN MsgNotSaved \o error[1]
    ELSE MsgFallback

ParseResponse(status, transaction, message) ==
    [status |-> status, transaction |-> transaction, message |-> message]

\* the handler, given the body b and the extractor's result, up to its return or
\* up to its call of write_to_sheet
Handle(b, parsed) ==
    /\ body' = b
    /\ parsed_data' = Some(parsed)
    /\ IF NoTransaction(parsed)
       THEN /\ response' = Some(ParseResponse("error", None, Some(MsgNoTransaction)))
            /\ pc' = "done"
            /\ UNCHANGED <<calls, sheets_saved, sheets_error, sheets_details>>
       ELSE IF NotConfigured(env.SPREADSHEET_ID)
       THEN /\ sheets_error' = Some(MsgNotConfigured)
            /\ response' = Some(ParseResponse("success", Some(parsed),
                                 Some(ComposeMessage(FALSE, Some(MsgNotConfigured), None))))
            /\ pc' = "done"
            /\ UNCHANGED <<calls, sheets_saved, sheets_details>>
       ELSE /\ calls' = Append(calls, write_to_sheet(env.SPREADSHEET_ID[1],
                                                     RangeName(env.SHEET_NAME),
                                                     <<RowData(parsed)>>))
            /\ pc' = "calling"
            /\ UNCHANGED <<sheets_saved, sheets_error, sheets_details, response>>
    /\ UNCHANGED <<env, outcome>>

\* a request arrives with some body
ParseEmail ==
    /\ pc = "idle"
    /\ \E b \in Bodies : \E parsed \in {parse_banco_chile_email(b)} : Handle(b, parsed)

\* write_to_sheet returns result; the handler records the save and returns
WriteToSheetReturns(result) ==
    /\ pc = "calling"
    /\ outcome' = Some([kind |-> "returned", result |-> result])
    /\ LET range == UpdatedRange(result)
           saved == TRUE
           details == IF range.ok THEN Some(DetailPrefix \o range.value) ELSE None
           error == IF range.ok THEN None ELSE Some(range.value)
       IN  /\ sheets_saved' = saved
           /\ sheets_details' = details
           /\ sheets_error' = error
           /\ response' = Some(ParseResponse("success", parsed_data,
                                             Some(ComposeMessage(saved, error, details))))
    /\ pc' = "done"
    /\ UNCHANGED <<env, body, parsed_data, calls>>

\* a handler that calls write_to_sheet a second time after a failure
WriteToSheetRaisesRetry(text) ==
    /\ pc = "calling"
    /\ IF Len(calls) < 2
       THEN /\ calls' = Append(calls, calls[1])
            /\ UNCHANGED <<pc, outcome, sheets_error, response>>
       ELSE /\ outcome' = Some([kind |-> "raised", text |-> text])
            /\ sheets_error' = Some(text)
            /\ response' = Some(ParseResponse("success", parsed_data,
                                  Some(ComposeMessage(sheets_saved, Some(text),
                                                      sheets_details))))
            /\ pc' = "done"
            /\ UNCHANGED calls
    /\ UNCHANGED <<env, body, parsed_data, sheets_saved, sheets_details>>

\* write_to_sheet raises an exception whose str() is text; the handler returns
WriteToSheetRaises(text) ==
    /\ pc = "calling"
    /\ outcome' = Some([kind |-> "raised", text |-> text])
    /\ sheets_error' = Some(text)
    /\ response' = Some(ParseResponse("success", parsed_data,
                                      Some(ComposeMessage(sheets_saved, Some(text),
                                                          sheets_details))))
    /\ pc' = "done"
    /\ UNCHANGED <<env, body, parsed_data, calls, sheets_saved, sheets_details>>

\* the request is over; its locals are gone
NextRequest ==
    /\ pc = "done"
    /\ pc' = "idle"
    /\ body' = <<>>
    /\ parsed_data' = None
    /\ calls' = <<>>
    /\ outcome' = None
    /\ sheets_saved' = FALSE
    /\ sheets_error' = None
    /\ sheets_details' = None
    /\ response' = None
    /\ UNCHANGED env

Init ==
    /\ pc = "idle"
    /\ env \in [SPREADSHEET_ID : SpreadsheetIds, SHEET_NAME : SheetNames]
    /\ body = <<>>
    /\ parsed_data = None
    /\ calls = <<>>
    /\ outcome = None
    /\ sheets_saved = FALSE
    /\ sheets_error = None
    /\ sheets_details = None
    /\ response = None

Next ==
    \/ ParseEmail
    \/ \E result \in AppendResults : WriteToSheetReturns(result)
    \/ \E text \in ExceptionTexts : WriteToSheetRaises(text)
    \/ NextRequest

Spec == Init /\ [][Next]_vars

(***************************************************************************)
(* Vocabulary of the properties                                            *)
(***************************************************************************)
Extracted == parsed_data # None
Parsed == parsed_data[1]
Responded == response # None
Resp == response[1]
Message == response[1].message[1]
Raised == outcome # None /\ outcome[1].kind = "raised"
Returned == outcome # None /\ outcome[1].kind = "returned"
Configured == env.SPREADSHEET_ID # None /\ env.SPREADSHEET_ID[1] # <<>>

StartsWith(s, prefix) == Len(prefix) <= Len(s) /\ SubSeq(s, 1, Len(prefix)) = prefix

\* word occurs in b in some letter case
MentionsAnyCase(b, word) ==
    \E i \in 1..Len(b) :
        /\ i + Len(word) - 1 <= Len(b)
        /\ \A k \in 1..Len(word) : LowerChar(b[i + k - 1]) = word[k]

\* b holds a "$" followed by a digit, a dot or a comma
HasAmountPattern(b) == \E i \in 1..(Len(b) - 1) : b[i] = "$" /\ IsAmountChar(b[i + 1])

\* the first amount pattern of b has dots and commas only, no digit
AmountUnparsable(b) ==
    /\ HasAmountPattern(b)
    /\ LET i == Min({j \in 1..(Len(b) - 1) : b[j] = "$" /\ IsAmountChar(b[j + 1])})
       IN  \A j \in (i + 1)..Len(b) :
               (\A k \in (i + 1)..j : IsAmountChar(b[k])) => ~IsDigit(b[j])

AmountNotFound(b) == ~HasAmountPattern(b) \/ AmountUnparsable(b)

\* b holds "el DD/MM/YYYY HH:MM"
HasTimestamp(b) ==
    \E i \in 1..Len(b) :
        /\ MatchAt(b, <<"e", "l", " ">>, i)
        /\ DateAt(b, i + 3)
        /\ MatchAt(b, <<" ">>, i + 13)
        /\ TimeAt(b, i + 14)

\* b holds one of the phrases that classify a transaction
HasTypePhrase(b) ==
    \/ MentionsAnyCase(b, GIRO)
    \/ MentionsAnyCase(b, CAJERO)
    \/ MentionsAnyCase(b, CARGO_A_CUENTA)
    \/ MentionsAnyCase(b, TARJETA_DE \o CREDITO)
    \/ MentionsAnyCase(b, TARJETA_DE \o DEBITO)

\* m is a text that b holds between the word "en" and an "el" followed by a digit,
\* on one line, trimmed
IsMerchantPhrase(b, m) ==
    \E i \in 1..Len(b) : \E e \in (i + 3)..Len(b) :
        /\ MatchAt(b, <<"e", "n", " ">>, i)
        /\ i = 1 \/ IsSpace(b[i - 1])
        /\ \A k \in (i + 3)..e : IsLineChar(b[k])
        /\ MerchantTailAt(b, e + 1)
        /\ Strip(SubSeq(b, i + 3, e)) = m

HasMerchantPhrase(b) ==
    \E i \in 1..Len(b) : \E e \in (i + 3)..Len(b) :
        /\ MatchAt(b, <<"e", "n", " ">>, i)
        /\ i = 1 \/ IsSpace(b[i - 1])
        /\ \A k \in (i + 3)..e : IsLineChar(b[k])
        /\ MerchantTailAt(b, e + 1)

\* the append returned what is no mapping of the expected shape
Malformed(result) ==
    \/ result.type # "dict"
    \/ result.updates # None /\ result.updates[1].type # "dict"

(***************************************************************************)
(* C1                                                                      *)
(***************************************************************************)
\* C1: when write_to_sheet raises, the request returns status "success" with the
\* transaction, and the message says the data was not saved and holds the text of
\* the exception.
C1_RaiseReportedAsNotSaved ==
    (pc = "done" /\ Raised) =>
        /\ Resp.status = "success"
        /\ Resp.transaction = parsed_data
        /\ Parsed.amount # 0
        /\ StartsWith(Message, MsgNotSaved)
        /\ Contains(Message, outcome[1].text)

(***************************************************************************)
(* C2                                                                      *)
(***************************************************************************)
\* C2: whenever the extractor returns amount 0, the request ends with status
\* "error", no transaction, and write_to_sheet is never invoked, whatever
\* SPREADSHEET_ID is.
C2_ZeroAmountIsTerminal ==
    (Extracted /\ Parsed.amount = 0) =>
        /\ pc = "done"
        /\ Resp.status = "error"
        /\ Resp.transaction = None
        /\ Resp.message = Some(MsgNoTransaction)
        /\ calls = <<>>
        /\ outcome = None

\* a literal zero amount, with the destination configured
C2_Witness ==
    /\ pc = "done"
    /\ Parsed.amount = 0
    /\ HasAmountPattern(body)
    /\ ~AmountUnparsable(body)
    /\ Configured
    /\ Resp.status = "error"

(***************************************************************************)
(* C3                                                                      *)
(***************************************************************************)
\* C3 as stated: a body with no amount pattern, or whose amount fails to parse,
\* yields amount 0 and card_type, merchant and datetime all None.
C3_NothingExtractedWithoutAmount ==
    (Extracted /\ AmountNotFound(body)) =>
        /\ Parsed.amount = 0
        /\ Parsed.card_type = None
        /\ Parsed.merchant = None
        /\ Parsed.datetime = None

\* C3 amended: such a body yields amount 0, and classification and timestamp
\* extraction run all the same: card_type is None only when the body has no
\* classification phrase, a body with "giro" or "cajero" gets card_type "Giro" and
\* merchant "Cajero Automatico", and datetime is None only when the body has no
\* "el DD/MM/YYYY HH:MM" timestamp.
C3_AmountZeroOtherFieldsStillExtracted ==
    (Extracted /\ AmountNotFound(body)) =>
        /\ Parsed.amount = 0
        /\ (Parsed.card_type = None) <=> ~HasTypePhrase(body)
        /\ (MentionsAnyCase(body, GIRO) \/ MentionsAnyCase(body, CAJERO)) =>
              /\ Parsed.card_type = Some(Giro)
              /\ Parsed.merchant = Some(CajeroAutomatico)
        /\ (Parsed.datetime = None) <=> ~HasTimestamp(body)

\* no amount pattern, a withdrawal trigger and a timestamp
C3_Witness ==
    /\ Extracted
    /\ ~HasAmountPattern(body)
    /\ Parsed.amount = 0
    /\ Parsed.card_type = Some(Giro)
    /\ Parsed.datetime # None

(***************************************************************************)
(* C4                                                                      *)
(***************************************************************************)
\* C4: a body that holds "giro" or "cajero" in any letter case yields card_type
\* "Giro" and merchant "Cajero Automatico", whatever else it holds.
C4_WithdrawalTakesPrecedence ==
    (Extracted /\ (MentionsAnyCase(body, GIRO) \/ MentionsAnyCase(body, CAJERO))) =>
        /\ Parsed.card_type = Some(Giro)
        /\ Parsed.merchant = Some(CajeroAutomatico)

\* an upper-case "CAJERO" together with "cargo a cuenta" and an "en X el <digit>" phrase
C4_Witness ==
    /\ Extracted
    /\ Contains(body, <<"C", "A", "J", "E", "R", "O">>)
    /\ MentionsAnyCase(body, CARGO_A_CUENTA)
    /\ HasMerchantPhrase(body)
    /\ Parsed.merchant = Some(CajeroAutomatico)

(***************************************************************************)
(* C5                                                                      *)
(***************************************************************************)
\* C5: with a non-zero amount and SPREADSHEET_ID unset or empty, write_to_sheet is
\* not called, the request returns status "success" with the transaction, and the
\* message is the "not saved" message carrying the missing-configuration reason.
C5_UnconfiguredIsSkipped ==
    (Extracted /\ Parsed.amount # 0 /\ ~Configured) =>
        /\ pc = "done"
        /\ calls = <<>>
        /\ outcome = None
        /\ Resp.status = "success"
        /\ Resp.transaction = parsed_data
        /\ Message = MsgNotSaved \o MsgNotConfigured

\* a non-zero amount with SPREADSHEET_ID set to the empty string
C5_Witness ==
    /\ pc = "done"
    /\ Parsed.amount # 0
    /\ env.SPREADSHEET_ID = Some(<<>>)
    /\ Resp.status = "success"

(***************************************************************************)
(* C6                                                                      *)
(***************************************************************************)
\* C6 as stated: a malformed collaborator response is surfaced as a request-level
\* error, which is neither the "success" nor the "error" response.
C6_MalformedResultIsRequestError ==
    (pc = "done" /\ Returned /\ Malformed(outcome[1].result)) =>
        Resp.status \notin {"success", "error"}

\* C6 amended: a malformed collaborator response is caught with the persistence
\* failures and is no request-level error: the request returns status "success"
\* with the transaction; the saved flag is already set, so the message is the
\* "Guardado en Google Sheets" form with the detail "None".
C6_MalformedResultIsReportedSaved ==
    (pc = "done" /\ Returned /\ Malformed(outcome[1].result)) =>
        /\ Resp.status = "success"
        /\ Resp.transaction = parsed_data
        /\ sheets_saved
        /\ sheets_error = Some(AttributeErrorText)
        /\ Message = MsgSaved \o NoneText

\* the append returned what is no mapping
C6_Witness ==
    /\ pc = "done"
    /\ Returned
    /\ outcome[1].result.type = "NoneType"
    /\ Resp.status = "success"

(***************************************************************************)
(* C7                                                                      *)
(***************************************************************************)
\* C7: write_to_sheet is invoked at most once per request, only after extraction
\* gave a non-zero amount, and before the response is composed; a failure is not
\* retried.
C7_AtMostOneAppend ==
    /\ Len(calls) <= 1
    /\ calls # <<>> => (Extracted /\ Parsed.amount # 0)
    /\ pc = "calling" => (Len(calls) = 1 /\ ~Responded /\ outcome = None)
    /\ (Responded /\ calls # <<>>) => outcome # None
    /\ Raised => (pc = "done" /\ Responded)

\* the one call failed and the request is answered
C7_Witness ==
    /\ pc = "done"
    /\ Raised
    /\ Len(calls) = 1
    /\ Responded

(***************************************************************************)
(* C8                                                                      *)
(***************************************************************************)
\* C8: for a body with a non-zero amount and the debit or the credit trigger and no
\* withdrawal trigger, the merchant is the trimmed text between the word "en" and
\* the "el" before a digit, on one line, also when an earlier word ends in "en" or
\* the word "en" occurs earlier; it is None when there is no such phrase.
C8_MerchantBetweenEnAndEl ==
    ( /\ Extracted
      /\ Parsed.amount # 0
      /\ MentionsAnyCase(body, CARGO_A_CUENTA) \/ MentionsAnyCase(body, TARJETA_DE \o CREDITO)
      /\ ~MentionsAnyCase(body, GIRO)
      /\ ~MentionsAnyCase(body, CAJERO) ) =>
        /\ (Parsed.merchant = None) <=> ~HasMerchantPhrase(body)
        /\ Parsed.merchant # None => IsMerchantPhrase(body, Parsed.merchant[1])

(***************************************************************************)
(* C9                                                                      *)
(***************************************************************************)
\* C9: every call of write_to_sheet passes one row of five cells, date, time,
\* merchant, card_type, amount, to the range "<SHEET_NAME>!A:E" (SHEET_NAME
\* "Sheet1" when unset); the amount cell is the non-zero amount, an absent field is
\* the empty string, and date and time are both from the timestamp or both empty.
C9_RowShape ==
    \A k \in 1..Len(calls) :
        LET call == calls[k]
            row == call.values[1]
        IN  /\ Len(call.values) = 1
            /\ Len(row) = 5
            /\ call.spreadsheetId = env.SPREADSHEET_ID[1]
            /\ call.range = (IF env.SHEET_NAME = None THEN <<"S", "h", "e", "e", "t", "1">>
                             ELSE env.SHEET_NAME[1]) \o <<"!", "A", ":", "E">>
            /\ row[5] = Parsed.amount
            /\ row[5] # 0
            /\ row[3] = (IF Parsed.merchant = None THEN <<>> ELSE Parsed.merchant[1])
            /\ row[4] = (IF Parsed.card_type = None THEN <<>> ELSE Parsed.card_type[1])
            /\ IF Parsed.datetime = None
               THEN row[1] = <<>> /\ row[2] = <<>>
               ELSE /\ Len(row[1]) = 10
                    /\ Len(row[2]) = 5
                    /\ row[1] \o <<" ">> \o row[2] = Parsed.datetime[1]

\* a call whose row has a date and a time and an empty merchant
C9_Witness ==
    /\ Len(calls) = 1
    /\ calls[1].values[1][1] # <<>>
    /\ calls[1].values[1][2] # <<>>
    /\ calls[1].values[1][3] = <<>>
    /\ calls[1].range = <<"S", "h", "e", "e", "t", "1", "!", "A", ":", "E">>

(***************************************************************************)
(* C10                                                                     *)
(***************************************************************************)
\* C10: the message of a "success" response matches the persistence outcome: the
\* "Guardado" form exactly when write_to_sheet was called and the save recorded,
\* the "No guardado" form exactly when the call raised or the destination was not
\* configured, and never the bare "SPREADSHEET_ID no configurado" when
\* SPREADSHEET_ID is configured.
C10_MessageMatchesOutcome ==
    (pc = "done" /\ Resp.status = "success") =>
        /\ StartsWith(Message, MsgSaved) <=> (calls # <<>> /\ sheets_saved)
        /\ StartsWith(Message, MsgNotSaved) <=> (Raised \/ ~Configured)
        /\ Configured => Message # MsgFallback
====
